---- MODULE Spec2Model ----
(***************************************************************************)
(* Drive Nest upload queue: UploadHandler (scripts/storage.js) driving     *)
(* FirestoreStorageManager.uploadFile (scripts/storage-firestore.js,       *)
(* isDemoMode = false).  JavaScript is single threaded: every action below *)
(* is one run-to-completion turn of the event loop (a call from the page,  *)
(* a timer callback, or the settling of a transfer together with the       *)
(* microtask continuation of startUpload that follows it).  The progress   *)
(* dialogs the handler opens are followed in SpecDialogs only; the views   *)
(* of DriveNestApp (scripts/app.js) and the toasts of ModalManager         *)
(* (scripts/ui/modals.js) have specifications of their own.                *)
(*                                                                         *)
(* Spec         the queue driven by uploadFiles calls                      *)
(* SpecLive     the same steps without the interval callbacks, with the    *)
(*              fairness of timers and transfers                           *)
(* SpecSelect   the queue driven by handleFileSelection calls              *)
(* SpecValidate validateFile called on its own                             *)
(* SpecQuota    uploadFile step by step: user, quota, file read, writes    *)
(* SpecCancel   the queue with cancelAllUploads and clearUploadHistory     *)
(* SpecDialogs  the queue and its progress dialogs                         *)
(* SpecViews    overlapping loadFiles calls of DriveNestApp                *)
(* SpecToasts   showToast, expiries, clicks and fade-outs                  *)
(* SpecClear    the same with clearAllToasts                               *)
(***************************************************************************)
EXTENDS Integers, Sequences, FiniteSets, TLC

\* ---- bounds ----
MaxUploads == 4     \* upload objects created over a behaviour
MaxBatches == 2     \* uploadFiles calls over a behaviour
MaxTicks == 1       \* progress reports made by interval callbacks
MaxFiles == 2       \* files of one handleFileSelection call
MaxSelections == 2  \* handleFileSelection calls over a behaviour
MaxQuotaUploads == 1  \* uploads made against a nearly full store
MaxCancels == 1     \* cancelAllUploads / clearUploadHistory calls
MaxLoads == 3       \* loadFiles calls over a behaviour
MaxToasts == 8      \* showToast calls made by the page
MaxClicks == 1      \* clicks on toasts and clearAllToasts calls

\* ---- program constants ----
maxConcurrentUploads == 3
maxFileSize == 1024 * 1024            \* both classes, in bytes
maxTotalSize == 1024 * 1024 * 1024    \* FirestoreStorageManager
progressIntervals == <<10, 30, 50, 70, 85, 95, 100>>
maxToasts == 5                        \* ModalManager

Uploads == 1..MaxUploads

VARIABLES
  uploadQueue,      \* UploadHandler.uploadQueue: sequence of upload ids
  activeUploads,    \* UploadHandler.activeUploads: key set of the Map
  status,           \* upload.status ("none": object not created yet)
  progress,         \* upload.progress
  error,            \* upload.error ("null" or "message")
  transfer,         \* position of storageManager.uploadFile for the upload
  currentProgress,  \* uploadFile's currentProgress index (0-based)
  progressTimer,    \* uploadFile has started its setInterval
  backfillTimers,   \* pending setTimeout(() => processUploadQueue(), 100)
  completeCalls,    \* number of onAllUploadsComplete calls so far
  completedCount,   \* completedCount computed by the last such call
  nextUpload,       \* id of the next upload object to create
  batches,          \* number of uploadFiles calls that created uploads
  admitted,         \* uploads in the order startUpload was called
  upFile,           \* upload.file
  outcomes,         \* how the promise of each uploadFiles call settled
  savedFiles,       \* uploads whose file document saveFile has stored
  selection,        \* files of the handleFileSelection call of this turn
  invalidFiles,     \* its local invalidFiles, given to showValidationErrors
  accepted,         \* the uploads created for its local validFiles
  validation,       \* file and result of the last direct validateFile call
  selections,       \* number of handleFileSelection calls so far
  storedBefore,     \* bytes of the user's files stored before the session
  quotaCheck,       \* what canUploadFile found comparing usage and quota
  activityLog,      \* uploads whose 'upload' activity logActivity has stored
  user,             \* authManager.getCurrentUser() returns a user
  document,         \* the progress dialogs of the page, where followed
  cancels,          \* number of cancelAllUploads / clearUploadHistory calls
  currentView,      \* DriveNestApp.currentView
  appFiles,         \* DriveNestApp.files
  filteredFiles,    \* DriveNestApp.filteredFiles
  loads,            \* loadFiles calls waiting for their listing
  loadCalls,        \* number of loadFiles calls so far
  toastContainer,   \* children of #toast-container, oldest first
  toastQueue,       \* ModalManager.toastQueue
  fadeTimers,       \* pending 300 ms callbacks of removeToast, oldest first
  toastCalls,       \* number of showToast calls made by the page
  clicks            \* number of clicks on toasts and clearAllToasts calls

vars == <<uploadQueue, activeUploads, status, progress, error, transfer,
          currentProgress, progressTimer, backfillTimers,
          completeCalls, completedCount,
          nextUpload, batches, admitted, upFile, outcomes, savedFiles,
          selection, invalidFiles, accepted, validation, selections,
          storedBefore, quotaCheck, activityLog, user, document, cancels,
          currentView, appFiles, filteredFiles, loads, loadCalls,
          toastContainer, toastQueue, fadeTimers, toastCalls, clicks>>

\* the state of DriveNestApp and of ModalManager that the handler's methods
\* leave alone
appVars == <<currentView, appFiles, filteredFiles, loads, loadCalls>>
toastVars == <<toastContainer, toastQueue, fadeTimers, toastCalls,
               clicks>>

\* ---- File objects ----
\* name: a string as the sequence of its characters, or undefined;
\* size in bytes; type: the MIME type
Name(chars) == [defined |-> TRUE, chars |-> chars]
Undefined == [defined |-> FALSE, chars |-> <<>>]
File(name, size, type) == [name |-> name, size |-> size, type |-> type]
NoFile == File(Undefined, 0, "no file")
\* the file of an upload whose attributes are of no interest
AnyFile == File(Name(<<"a">>), 1, "text/plain")

\* String.prototype.trim on the characters of a string
Whitespace == {" ", "\t"}
RECURSIVE trimStart(_)
trimStart(chars) ==
  IF chars # <<>> /\ Head(chars) \in Whitespace
  THEN trimStart(Tail(chars)) ELSE chars
RECURSIVE trimEnd(_)
trimEnd(chars) ==
  IF chars # <<>> /\ chars[Len(chars)] \in Whitespace
  THEN trimEnd(SubSeq(chars, 1, Len(chars) - 1)) ELSE chars
trim(chars) == trimEnd(trimStart(chars))

\* formatFileSize(bytes): the number with one decimal and the unit
RECURSIVE Pow(_, _)
Pow(k, i) == IF i = 0 THEN 1 ELSE k * Pow(k, i - 1)
RECURSIVE FloorLog(_, _)
FloorLog(bytes, k) == IF bytes < k THEN 0 ELSE 1 + FloorLog(bytes \div k, k)
formatFileSize(bytes) ==
  IF bytes = 0 THEN [whole |-> 0, tenths |-> 0, unit |-> "B", fixed |-> 0]
  ELSE LET units == <<"B", "KB", "MB", "GB">>
           i == FloorLog(bytes, 1024)
           t == (bytes * 10 + Pow(1024, i) \div 2) \div Pow(1024, i)
       IN [whole |-> t \div 10, tenths |-> t % 10, unit |-> units[i + 1],
           fixed |-> 1]

SizeReason == [text |-> "File size exceeds limit",
               limit |-> formatFileSize(maxFileSize)]
NameReason == [text |-> "Invalid filename",
               limit |-> formatFileSize(0)]
NoReason == [text |-> "none", limit |-> formatFileSize(0)]

\* variant: the size test is >=
validateFile_SizeGE(file) ==
  IF file.size >= maxFileSize
  THEN [valid |-> FALSE, reason |-> SizeReason]
  ELSE IF ~file.name.defined \/ file.name.chars = <<>>
          \/ trim(file.name.chars) = <<>>
  THEN [valid |-> FALSE, reason |-> NameReason]
  ELSE [valid |-> TRUE, reason |-> NoReason]

\* variant: the size is not tested
validateFile_NoSizeTest(file) ==
  IF ~file.name.defined \/ file.name.chars = <<>>
     \/ trim(file.name.chars) = <<>>
  THEN [valid |-> FALSE, reason |-> NameReason]
  ELSE [valid |-> TRUE, reason |-> NoReason]

\* validateFile(file); !file.name holds for undefined and for ''
validateFile(file) ==
  IF file.size > maxFileSize
  THEN [valid |-> FALSE, reason |-> SizeReason]
  ELSE IF ~file.name.defined \/ file.name.chars = <<>>
          \/ trim(file.name.chars) = <<>>
  THEN [valid |-> FALSE, reason |-> NameReason]
  ELSE [valid |-> TRUE, reason |-> NoReason]

NoValidation == [called |-> FALSE, file |-> NoFile,
                 result |-> [valid |-> FALSE, reason |-> NoReason]]

\* ---- JavaScript values stored in upload.progress ----
\* a number (the initial 0, the final 100) or the snapshot object that
\* FirestoreStorageManager passes to onProgress; pct is bytesTransferred
\* as a percentage of totalBytes.
Num(n) == [tag |-> "num", pct |-> n, state |-> "number"]
Snapshot(p, s) == [tag |-> "obj", pct |-> p, state |-> s]

\* result of calculateOverallProgress: a quotient sum/den, or NaN
Quot(s, d) == [tag |-> "num", sum |-> s, den |-> d]
NaN == [tag |-> "nan", sum |-> 0, den |-> 1]

\* ---- the handler state as one record, threaded through the methods ----
\* as a turn finds it: the arguments and locals of a handleFileSelection
\* call of an earlier turn are gone
H == [uploadQueue |-> uploadQueue, activeUploads |-> activeUploads,
      status |-> status, progress |-> progress, error |-> error,
      transfer |-> transfer, backfillTimers |-> backfillTimers,
      completeCalls |-> completeCalls, completedCount |-> completedCount,
      admitted |-> admitted, upFile |-> upFile, outcomes |-> outcomes,
      savedFiles |-> savedFiles, selection |-> <<>>,
      invalidFiles |-> <<>>, accepted |-> <<>>, quotaCheck |-> quotaCheck,
      activityLog |-> activityLog, document |-> document]

\* (h is evaluated once, then assigned field by field)
Apply(h) ==
  \E r \in {h} :
    /\ uploadQueue' = r.uploadQueue
    /\ activeUploads' = r.activeUploads
    /\ status' = r.status
    /\ progress' = r.progress
    /\ error' = r.error
    /\ transfer' = r.transfer
    /\ backfillTimers' = r.backfillTimers
    /\ completeCalls' = r.completeCalls
    /\ completedCount' = r.completedCount
    /\ admitted' = r.admitted
    /\ upFile' = r.upFile
    /\ outcomes' = r.outcomes
    /\ savedFiles' = r.savedFiles
    /\ selection' = r.selection
    /\ invalidFiles' = r.invalidFiles
    /\ accepted' = r.accepted
    /\ quotaCheck' = r.quotaCheck
    /\ activityLog' = r.activityLog
    /\ document' = r.document

\* ---- the progress dialogs of the page ----
\* followed: the specification keeps track of the dialogs; where it does
\* not, what the handler writes to the document is dropped
Document(followed, dialogs) ==
  [followed |-> followed, progressDialogs |-> dialogs]

\* showProgress(title, message): appends a modal with id 'progress-...'
showProgress(h) ==
  [h EXCEPT !.document =
     IF @.followed THEN Document(TRUE, @.progressDialogs + 1) ELSE @]

\* hideProgress() without an id: removes the last element whose id starts
\* with 'progress-', if there is one
hideProgress(h) ==
  [h EXCEPT !.document =
     IF @.followed /\ @.progressDialogs > 0
     THEN Document(TRUE, @.progressDialogs - 1) ELSE @]

\* the test `activeUploads.size === 1 && uploadQueue.length === 0` that
\* startUpload makes before showing and before hiding the dialog
SingleUpload(h) ==
  Cardinality(h.activeUploads) = 1 /\ Len(h.uploadQueue) = 0

\* a listing no loadFiles call has stored yet: the empty array
NoListing == [view |-> "none", entries |-> "empty"]

RECURSIVE SumProgress(_, _)
SumProgress(S, prog) ==
  IF S = {} THEN 0
  ELSE LET u == CHOOSE x \in S : TRUE
       IN prog[u].pct + SumProgress(S \ {u}, prog)

\* calculateOverallProgress(): the reduce starts from the number 0; adding
\* a snapshot object turns the accumulator into a string that contains
\* "[object Object]", and that string divided by the size is NaN.
calculateOverallProgress(h) ==
  IF Cardinality(h.activeUploads) = 0 THEN Quot(100, 1)
  ELSE IF \E u \in h.activeUploads : h.progress[u].tag = "obj" THEN NaN
  ELSE Quot(SumProgress(h.activeUploads, h.progress),
            Cardinality(h.activeUploads))

\* variant: the callback also marks the upload as uploading
onProgress_SetsStatus(h, u, value) ==
  [h EXCEPT !.progress[u] = value, !.status[u] = "uploading"]

\* the callback startUpload passes to storageManager.uploadFile; the
\* updateUploadProgress it calls only writes to the document
onProgress(h, u, value) == [h EXCEPT !.progress[u] = value]

\* getUploadStats(): every count but queued is taken over activeUploads
getUploadStats(h) ==
  [total |-> Cardinality(h.activeUploads),
   completed |-> Cardinality({u \in h.activeUploads :
                                h.status[u] = "completed"}),
   failed |-> Cardinality({u \in h.activeUploads : h.status[u] = "failed"}),
   active |-> Cardinality({u \in h.activeUploads :
                             h.status[u] = "uploading"}),
   queued |-> Len(h.uploadQueue)]

\* clearUploadHistory()
clearUploadHistory(h) ==
  [h EXCEPT !.uploadQueue = <<>>, !.activeUploads = {}]

\* onAllUploadsComplete(); production: hostname is not 'localhost'
onAllUploadsComplete(h, production) ==
  LET h0 == hideProgress(h)
      n == Cardinality({u \in h.activeUploads : h.status[u] = "completed"})
      h1 == [h0 EXCEPT !.completeCalls = @ + 1, !.completedCount = n]
  IN IF production THEN clearUploadHistory(h1) ELSE h1

\* hasActiveUploads()
hasActiveUploads(h) ==
  Cardinality(h.activeUploads) > 0 \/ Len(h.uploadQueue) > 0

\* cancelAllUploads(): no code sets upload.cancelFunction, so the loop over
\* the active uploads calls nothing and the transfers go on
cancelAllUploads(h) == hideProgress(clearUploadHistory(h))

\* startUpload(upload) up to its await: storage.js 483-504; uploadFile has
\* been called and is checking the user, the quota and reading the file
startUpload(h, u) ==
  LET h1 == [h EXCEPT !.status[u] = "uploading",
                      !.activeUploads = @ \cup {u}]
      h2 == IF SingleUpload(h1) THEN showProgress(h1) ELSE h1
  IN [h2 EXCEPT !.admitted = Append(@, u), !.transfer[u] = "preparing"]

\* variant: the capacity test is <= instead of <
RECURSIVE processUploadQueue_OffByOne(_)
processUploadQueue_OffByOne(h) ==
  IF Len(h.uploadQueue) > 0
     /\ Cardinality(h.activeUploads) <= maxConcurrentUploads
  THEN LET upload == Head(h.uploadQueue)
       IN processUploadQueue_OffByOne(
            startUpload([h EXCEPT !.uploadQueue = Tail(@)], upload))
  ELSE h

\* variant: pop() takes the newest upload instead of shift()
RECURSIVE processUploadQueue_Pop(_)
processUploadQueue_Pop(h) ==
  IF Len(h.uploadQueue) > 0
     /\ Cardinality(h.activeUploads) < maxConcurrentUploads
  THEN LET upload == h.uploadQueue[Len(h.uploadQueue)]
       IN processUploadQueue_Pop(
            startUpload([h EXCEPT !.uploadQueue =
                           SubSeq(@, 1, Len(@) - 1)], upload))
  ELSE h

\* variant: an if instead of the while, one admission per call
processUploadQueue_IfNotWhile(h) ==
  IF Len(h.uploadQueue) > 0
     /\ Cardinality(h.activeUploads) < maxConcurrentUploads
  THEN startUpload([h EXCEPT !.uploadQueue = Tail(@)], Head(h.uploadQueue))
  ELSE h

\* processUploadQueue()
RECURSIVE processUploadQueue(_)
processUploadQueue(h) ==
  IF Len(h.uploadQueue) > 0
     /\ Cardinality(h.activeUploads) < maxConcurrentUploads
  THEN LET upload == Head(h.uploadQueue)
       IN processUploadQueue(
            startUpload([h EXCEPT !.uploadQueue = Tail(@)], upload))
  ELSE h

\* variant: uploadFiles throws when files are left waiting in the queue
returnFromUploadFiles_ThrowsWhenQueued(h) ==
  [h EXCEPT !.outcomes =
     Append(@, IF Len(h.uploadQueue) > 0 THEN "rejected" ELSE "resolved")]

\* uploadFiles returns after `await this.processUploadQueue()`: the loop of
\* processUploadQueue has run to its end in the same turn and the promises
\* of the startUpload calls are not awaited, so the promise of uploadFiles
\* resolves whatever becomes of the transfers
returnFromUploadFiles(h) == [h EXCEPT !.outcomes = Append(@, "resolved")]

\* uploadFiles(files), files.length >= 1; first: id of the first upload
\* object it creates
uploadFiles(h, first, files) ==
  LET n == Len(files)
      new == first..(first + n - 1)
      uploads == [i \in 1..n |-> first + i - 1]
      h1 == [h EXCEPT !.uploadQueue = @ \o uploads,
                      !.status = [u \in Uploads |->
                                    IF u \in new THEN "queued" ELSE @[u]],
                      !.upFile = [u \in Uploads |->
                                    IF u \in new THEN files[u - first + 1]
                                    ELSE @[u]]]
      \* showBatchUploadProgress(uploads) calls showProgress
      h2 == IF n > 1 THEN showProgress(h1) ELSE h1
  IN returnFromUploadFiles(processUploadQueue(h2))

\* the two lists handleFileSelection builds in its loop
validFiles(files) ==
  SelectSeq(files, LAMBDA f : validateFile(f).valid)
invalidFilesOf(files) ==
  LET inv == SelectSeq(files, LAMBDA f : ~validateFile(f).valid)
  IN [i \in 1..Len(inv) |->
        [file |-> inv[i], reason |-> validateFile(inv[i]).reason]]

\* variant: one invalid file makes the handler drop the whole selection
handleFileSelection_AllOrNothing(h, first, files) ==
  IF Len(files) = 0 THEN h
  ELSE LET valid == validFiles(files)
           invalid == invalidFilesOf(files)
           h1 == [h EXCEPT !.selection = files, !.invalidFiles = invalid,
                           !.accepted = <<>>]
       IN IF Len(valid) > 0 /\ Len(invalid) = 0
          THEN [uploadFiles(h1, first, valid) EXCEPT
                  !.accepted = [i \in 1..Len(valid) |-> first + i - 1]]
          ELSE h1

\* handleFileSelection(files): showValidationErrors(invalidFiles) shows one
\* toast with a line `name: reason` for each entry, then uploadFiles
handleFileSelection(h, first, files) ==
  IF Len(files) = 0 THEN h
  ELSE LET valid == validFiles(files)
           invalid == invalidFilesOf(files)
           h1 == [h EXCEPT !.selection = files, !.invalidFiles = invalid,
                           !.accepted = <<>>]
       IN IF Len(valid) > 0
          THEN [uploadFiles(h1, first, valid) EXCEPT
                  !.accepted = [i \in 1..Len(valid) |-> first + i - 1]]
          ELSE h1

\* variant: the finally block does not schedule the backfill
startUploadFinally_NoBackfill(h, u, production) ==
  LET h1 == [h EXCEPT !.activeUploads = @ \ {u}]
  IN IF Len(h1.uploadQueue) = 0 /\ Cardinality(h1.activeUploads) = 0
     THEN onAllUploadsComplete(h1, production)
     ELSE h1

\* variant: the finally block does not test activeUploads.size
startUploadFinally_NoSizeTest(h, u, production) ==
  LET h1 == [h EXCEPT !.activeUploads = @ \ {u}]
  IN IF Len(h1.uploadQueue) > 0
     THEN [h1 EXCEPT !.backfillTimers = @ + 1]
     ELSE onAllUploadsComplete(h1, production)

\* the finally block of startUpload
startUploadFinally(h, u, production) ==
  LET h1 == [h EXCEPT !.activeUploads = @ \ {u}]
  IN IF Len(h1.uploadQueue) > 0
     THEN [h1 EXCEPT !.backfillTimers = @ + 1]
     ELSE IF Cardinality(h1.activeUploads) = 0
          THEN onAllUploadsComplete(h1, production)
          ELSE h1

\* startUpload after uploadFile resolved: storage.js 506-526 and finally
startUploadResolved(h, u, production) ==
  LET h1 == [h EXCEPT !.status[u] = "completed", !.progress[u] = Num(100)]
      h2 == IF SingleUpload(h1) THEN hideProgress(h1) ELSE h1
  IN startUploadFinally(h2, u, production)

\* variant: a failed upload is retried: it goes back to the head of the queue
startUploadRejected_RetryFirst(h, u, message, production) ==
  LET h1 == [h EXCEPT !.status[u] = "failed", !.error[u] = message,
                      !.uploadQueue = <<u>> \o @]
  IN startUploadFinally(h1, u, production)

\* variant: a failed upload is put back at the end of the queue
startUploadRejected_Requeue(h, u, message, production) ==
  LET h1 == [h EXCEPT !.status[u] = "failed", !.error[u] = message,
                      !.uploadQueue = Append(@, u)]
  IN startUploadFinally(h1, u, production)

\* variant: a failure aborts the uploads that are still queued
startUploadRejected_AbortsQueue(h, u, message, production) ==
  LET h1 == [h EXCEPT !.status[u] = "failed", !.error[u] = message,
                      !.uploadQueue = <<>>]
  IN startUploadFinally(h1, u, production)

\* startUpload after uploadFile rejected: storage.js 528-540 and finally
startUploadRejected(h, u, message, production) ==
  LET h1 == [h EXCEPT !.status[u] = "failed", !.error[u] = message]
      h2 == IF SingleUpload(h1) THEN hideProgress(h1) ELSE h1
  IN startUploadFinally(h2, u, production)

\* ---- initial state: the handler as constructed ----
InitHandler ==
  /\ uploadQueue = <<>>
  /\ activeUploads = {}
  /\ status = [u \in Uploads |-> "none"]
  /\ progress = [u \in Uploads |-> Num(0)]
  /\ error = [u \in Uploads |-> "null"]
  /\ transfer = [u \in Uploads |-> "none"]
  /\ currentProgress = [u \in Uploads |-> 0]
  /\ progressTimer = [u \in Uploads |-> FALSE]
  /\ backfillTimers = 0
  /\ completeCalls = 0
  /\ completedCount = 0
  /\ nextUpload = 1
  /\ batches = 0
  /\ admitted = <<>>
  /\ upFile = [u \in Uploads |-> NoFile]
  /\ outcomes = <<>>
  /\ savedFiles = {}
  /\ selection = <<>>
  /\ invalidFiles = <<>>
  /\ accepted = <<>>
  /\ validation = NoValidation
  /\ selections = 0
  /\ quotaCheck = [u \in Uploads |-> "none"]
  /\ activityLog = {}
  /\ cancels = 0

\* DriveNestApp and ModalManager as constructed
InitPage ==
  /\ currentView = "my-files"
  /\ appFiles = NoListing
  /\ filteredFiles = NoListing
  /\ loads = <<>>
  /\ loadCalls = 0
  /\ toastContainer = <<>>
  /\ toastQueue = <<>>
  /\ fadeTimers = <<>>
  /\ toastCalls = 0
  /\ clicks = 0

Init ==
  /\ InitHandler /\ InitPage
  /\ storedBefore = 0
  /\ user = TRUE
  /\ document = Document(FALSE, 0)

RECURSIVE Ticks(_)
Ticks(S) ==
  IF S = {} THEN 0
  ELSE LET u == CHOOSE x \in S : TRUE
       IN currentProgress[u] + Ticks(S \ {u})

\* ---- actions ----
\* uploadFiles(files) with n = files.length >= 1
UploadFiles(n) ==
  /\ nextUpload + n - 1 <= MaxUploads
  /\ batches < MaxBatches
  /\ Apply(uploadFiles(H, nextUpload, [i \in 1..n |-> AnyFile]))
  /\ batches' = batches + 1
  /\ nextUpload' = nextUpload + n
  /\ UNCHANGED <<currentProgress, progressTimer, validation, selections,
                 storedBefore, user, cancels,
                 appVars, toastVars>>

\* variant: the timer callback does nothing
BackfillTimer_Idle ==
  /\ backfillTimers > 0
  /\ backfillTimers' = backfillTimers - 1
  /\ UNCHANGED <<uploadQueue, activeUploads, status, progress, error,
                 transfer, currentProgress, progressTimer, completeCalls,
                 completedCount, nextUpload, batches, admitted, upFile,
                 outcomes, savedFiles, validation, selections, storedBefore,
                 quotaCheck, activityLog, document, user, cancels,
                 appVars, toastVars>>
  /\ selection' = <<>> /\ invalidFiles' = <<>> /\ accepted' = <<>>

\* the setTimeout callback of the finally block: processUploadQueue()
BackfillTimer ==
  /\ backfillTimers > 0
  /\ Apply(processUploadQueue([H EXCEPT !.backfillTimers = @ - 1]))
  /\ UNCHANGED <<currentProgress, progressTimer, nextUpload, batches,
                 validation, selections, storedBefore, user, cancels,
                 appVars, toastVars>>

\* uploadFile passes canUploadFile and fileToBase64 and starts its
\* progress timer (storage-firestore.js 76-100), then awaits saveFile
StartProgressTimer(u) ==
  /\ transfer[u] = "preparing"
  /\ transfer' = [transfer EXCEPT ![u] = "saving"]
  /\ progressTimer' = [progressTimer EXCEPT ![u] = TRUE]
  /\ currentProgress' = [currentProgress EXCEPT ![u] = 0]
  /\ UNCHANGED <<uploadQueue, activeUploads, status, progress, error,
                 backfillTimers, completeCalls, completedCount,
                 nextUpload, batches, admitted, upFile, outcomes,
                 savedFiles, validation, selections, storedBefore,
                 quotaCheck, activityLog, document, user, cancels,
                 appVars, toastVars>>
  /\ selection' = <<>> /\ invalidFiles' = <<>> /\ accepted' = <<>>

\* one tick of the setInterval callback that still reports progress.  The
\* interval is cleared by a setTimeout 1000 ms after it was started, whether
\* or not uploadFile has settled by then; a cleared interval is one that
\* does not tick again, which this action (never forced) already allows.
ProgressTick(u) ==
  /\ progressTimer[u]
  /\ Ticks(Uploads) < MaxTicks
  /\ currentProgress[u] < Len(progressIntervals) - 1
  /\ currentProgress' = [currentProgress EXCEPT ![u] = @ + 1]
  /\ Apply(onProgress(H, u,
        Snapshot(progressIntervals[currentProgress[u] + 2], "running")))
  /\ UNCHANGED <<progressTimer, nextUpload, batches, validation,
                 selections, storedBefore, user, cancels,
                 appVars, toastVars>>

\* saveFile and logActivity succeed: the final onProgress, the promise
\* resolves and startUpload continues
TransferSucceeds(u) ==
  /\ transfer[u] = "saving"
  /\ \E production \in BOOLEAN :
       LET h1 == onProgress(H, u, Snapshot(100, "success"))
           h2 == [h1 EXCEPT !.transfer[u] = "settled",
                            !.savedFiles = @ \cup {u},
                            !.activityLog = @ \cup {u}]
       IN Apply(startUploadResolved(h2, u, production))
  /\ UNCHANGED <<currentProgress, progressTimer, nextUpload, batches,
                 validation, selections, storedBefore, user, cancels,
                 appVars, toastVars>>

\* uploadFile throws (no user, file too large, read error, saveFile or
\* logActivity rejected): its catch reports an error snapshot and rethrows
TransferFails(u) ==
  /\ transfer[u] \in {"preparing", "saving"}
  /\ \E production \in BOOLEAN :
       LET h1 == onProgress(H, u, Snapshot(0, "error"))
           h2 == [h1 EXCEPT !.transfer[u] = "settled"]
       IN Apply(startUploadRejected(h2, u, "message", production))
  /\ UNCHANGED <<currentProgress, progressTimer, nextUpload, batches,
                 validation, selections, storedBefore, user, cancels,
                 appVars, toastVars>>

\* cancelAllUploads() called by the page
CancelAllUploads ==
  /\ cancels < MaxCancels
  /\ Apply(cancelAllUploads(H))
  /\ cancels' = cancels + 1
  /\ UNCHANGED <<currentProgress, progressTimer, nextUpload, batches,
                 validation, selections, storedBefore, user,
                 appVars, toastVars>>

\* clearUploadHistory() called by the page
ClearUploadHistory ==
  /\ cancels < MaxCancels
  /\ Apply(clearUploadHistory(H))
  /\ cancels' = cancels + 1
  /\ UNCHANGED <<currentProgress, progressTimer, nextUpload, batches,
                 validation, selections, storedBefore, user,
                 appVars, toastVars>>

\* ---- the checks of FirestoreStorageManager.uploadFile ----
FileTooLarge == "File too large"
QuotaExceeded == "Storage quota exceeded"

\* getStorageUsage(userId).used: the sizes of the user's files; 0 when the
\* files cannot be read (its catch)
RECURSIVE totalSize(_, _)
totalSize(S, files) ==
  IF S = {} THEN 0
  ELSE LET u == CHOOSE x \in S : TRUE
       IN files[u].size + totalSize(S \ {u}, files)

getStorageUsage(h, readable) ==
  IF readable THEN storedBefore + totalSize(h.savedFiles, h.upFile) ELSE 0

\* canUploadFile(file, userId): the size test throws to the caller; the
\* quota test throws inside the try whose catch only logs a warning, and
\* the function goes on to `return true`
canUploadFile(file, used) ==
  IF file.size > maxFileSize
  THEN [threw |-> TRUE, message |-> FileTooLarge, quota |-> "none"]
  ELSE [threw |-> FALSE, message |-> "none",
        quota |-> IF used + file.size > maxTotalSize
                  THEN "exceeded" ELSE "within"]

NotAuthenticated == "User not authenticated"
\* error.message of a value that has no message property: the event that
\* FileReader.onerror passes to reject in fileToBase64
UndefinedMessage == "undefined"

\* variant: uploadFile does not look at the user
requireUser_Anyone(signedIn) == [threw |-> FALSE, message |-> "none"]

\* the test of getCurrentUser() at the start of uploadFile
requireUser(signedIn) ==
  IF ~signedIn THEN [threw |-> TRUE, message |-> NotAuthenticated]
  ELSE [threw |-> FALSE, message |-> "none"]

\* the catch of uploadFile (error snapshot, rethrow) followed by the catch
\* of startUpload
uploadFileThrows(h, u, message, production) ==
  startUploadRejected([onProgress(h, u, Snapshot(0, "error"))
                         EXCEPT !.transfer[u] = "settled"],
                      u, message, production)

\* uploadFile from its start to the await of saveFile (storage-firestore.js
\* 67-100): the user, canUploadFile, fileToBase64 (fileReads: the
\* FileReader loads the file), the progress timer
CanUploadFile(u) ==
  /\ transfer[u] = "preparing"
  /\ \E readable, fileReads, production \in BOOLEAN :
       LET r == canUploadFile(upFile[u], getStorageUsage(H, readable))
           h1 == [H EXCEPT !.quotaCheck[u] = r.quota]
       IN IF requireUser(user).threw
          THEN /\ Apply(uploadFileThrows(H, u, requireUser(user).message,
                                         production))
               /\ UNCHANGED <<currentProgress, progressTimer>>
          ELSE IF r.threw
          THEN /\ Apply(uploadFileThrows(h1, u, r.message, production))
               /\ UNCHANGED <<currentProgress, progressTimer>>
          ELSE IF ~fileReads
          THEN /\ Apply(uploadFileThrows(h1, u, UndefinedMessage,
                                         production))
               /\ UNCHANGED <<currentProgress, progressTimer>>
          ELSE /\ Apply([h1 EXCEPT !.transfer[u] = "saving"])
               /\ progressTimer' = [progressTimer EXCEPT ![u] = TRUE]
               /\ currentProgress' = [currentProgress EXCEPT ![u] = 0]
  /\ UNCHANGED <<nextUpload, batches, validation, selections,
                 storedBefore, user, cancels, appVars, toastVars>>

\* saveFile rejects
SaveFileFails(u) ==
  /\ transfer[u] = "saving"
  /\ TransferFails(u)

\* saveFile has stored the file document and logActivity rejects
LogActivityFails(u) ==
  /\ transfer[u] = "saving"
  /\ \E production \in BOOLEAN :
       Apply(uploadFileThrows([H EXCEPT !.savedFiles = @ \cup {u}],
                              u, "message", production))
  /\ UNCHANGED <<currentProgress, progressTimer, nextUpload, batches,
                 validation, selections, storedBefore, user, cancels,
                 appVars, toastVars>>

\* the store before the session and the files uploaded in it
StoredValues ==
  {0, maxTotalSize - maxFileSize - 1, maxTotalSize - maxFileSize,
   maxTotalSize - maxFileSize + 1, maxTotalSize - 1, maxTotalSize}
QuotaFiles ==
  {File(Name(<<"a">>), sz, "image/png") :
     sz \in {1, maxFileSize, maxFileSize + 1}}

InitQuota ==
  /\ InitHandler /\ InitPage
  /\ storedBefore \in StoredValues
  /\ user \in BOOLEAN
  /\ document = Document(FALSE, 0)

\* uploadFiles([file]) for one of these files
UploadQuotaFile(file) ==
  /\ nextUpload <= MaxQuotaUploads
  /\ Apply(uploadFiles(H, nextUpload, <<file>>))
  /\ batches' = batches + 1
  /\ nextUpload' = nextUpload + 1
  /\ UNCHANGED <<currentProgress, progressTimer, validation, selections,
                 storedBefore, user, cancels,
                 appVars, toastVars>>

\* ---- files offered by the page ----
\* files a user selects or drops: one of exactly the size limit, one a
\* byte larger, one with a blank name
ExactFile == File(Name(<<"a">>), maxFileSize, "image/png")
OversizeFile == File(Name(<<"b">>), maxFileSize + 1, "image/png")
BlankNameFile == File(Name(<<" ">>), 1, "text/plain")
FilePool == {ExactFile, OversizeFile, BlankNameFile}

RECURSIVE SeqsUpTo(_, _)
SeqsUpTo(S, n) ==
  IF n = 0 THEN {<<>>}
  ELSE LET shorter == SeqsUpTo(S, n - 1)
       IN shorter \cup {Append(q, x) : q \in shorter, x \in S}

Selections == SeqsUpTo(FilePool, MaxFiles)

\* handleFileSelection(files), from the file input or a drop
HandleFileSelection(files) ==
  LET n == Len(validFiles(files))
  IN /\ selections < MaxSelections
     /\ nextUpload + n - 1 <= MaxUploads
     /\ Apply(handleFileSelection(H, nextUpload, files))
     /\ batches' = IF n > 0 THEN batches + 1 ELSE batches
     /\ nextUpload' = nextUpload + n
     /\ selections' = selections + 1
     /\ UNCHANGED <<currentProgress, progressTimer, validation,
                    storedBefore, user, cancels,
                 appVars, toastVars>>

\* files validateFile is given directly
FileSizes == {0, 1, maxFileSize - 1, maxFileSize, maxFileSize + 1,
              2 * maxFileSize}
FileNames == {Undefined, Name(<<>>), Name(<<" ">>), Name(<<"\t", " ">>),
              Name(<<"a">>), Name(<<" ", "a", " ">>), Name(<<"a", " ", "b">>)}
FileTypes == {"", "image/png", "application/x-msdownload"}
Candidates ==
  {File(n, sz, t) : n \in FileNames, sz \in FileSizes, t \in FileTypes}

\* validateFile(file) called on its own
ValidateFile(file) ==
  /\ validation' = [called |-> TRUE, file |-> file,
                    result |-> validateFile(file)]
  /\ Apply(H)
  /\ UNCHANGED <<currentProgress, progressTimer, nextUpload, batches,
                 selections, storedBefore, user, cancels,
                 appVars, toastVars>>

Next ==
  \/ \E n \in 1..MaxUploads : UploadFiles(n)
  \/ BackfillTimer
  \/ \E u \in Uploads : StartProgressTimer(u)
  \/ \E u \in Uploads : ProgressTick(u)
  \/ \E u \in Uploads : TransferSucceeds(u)
  \/ \E u \in Uploads : TransferFails(u)

Spec == Init /\ [][Next]_vars

\* ---- validateFile on its own ----
NextValidate == \E file \in Candidates : ValidateFile(file)

SpecValidate == Init /\ [][NextValidate]_vars

\* ---- the handler driven through handleFileSelection ----
\* (without the interval callbacks, which write upload.progress only)
NextSelect ==
  \/ \E files \in Selections : HandleFileSelection(files)
  \/ BackfillTimer
  \/ \E u \in Uploads : StartProgressTimer(u)
  \/ \E u \in Uploads : TransferSucceeds(u)
  \/ \E u \in Uploads : TransferFails(u)

SpecSelect == Init /\ [][NextSelect]_vars

\* ---- uploadFile step by step, against a nearly full store ----
\* (fewer uploads than maxConcurrentUploads: the queue stays empty and no
\* backfill timer is scheduled)
NextQuota ==
  \/ \E file \in QuotaFiles : UploadQuotaFile(file)
  \/ \E u \in Uploads : CanUploadFile(u)
  \/ \E u \in Uploads : ProgressTick(u)
  \/ \E u \in Uploads : TransferSucceeds(u)
  \/ \E u \in Uploads : SaveFileFails(u)
  \/ \E u \in Uploads : LogActivityFails(u)

SpecQuota == InitQuota /\ [][NextQuota]_vars

\* ---- progress of the queue ----
\* The interval callbacks of uploadFile write upload.progress only, which
\* no condition of the handler reads, and each interval stops after at
\* most Len(progressIntervals) - 1 reports: the steps that decide whether
\* the queue drains are the other ones.
NextLive ==
  \/ \E n \in 1..MaxUploads : UploadFiles(n)
  \/ BackfillTimer
  \/ \E u \in Uploads : StartProgressTimer(u)
  \/ \E u \in Uploads : TransferSucceeds(u)
  \/ \E u \in Uploads : TransferFails(u)

\* Every pending timer callback is run by the event loop, and every call
\* of storageManager.uploadFile settles (the promises it awaits settle).
\* A pending callback or settlement stays pending until it is run, so it
\* is enough that the event loop keeps running one of them while there
\* is one.
Fairness ==
  WF_vars(BackfillTimer
            \/ \E u \in Uploads :
                 StartProgressTimer(u) \/ TransferSucceeds(u)
                   \/ TransferFails(u))

SpecLive == Init /\ [][NextLive]_vars /\ Fairness

\* ---- DriveNestApp: the views and their listings ----
Views == {"my-files", "shared", "starred", "recent", "trash"}

\* what the firestoreManager method of a view resolves with
Listing(view) == [view |-> view, entries |-> "listing"]

handlerVars ==
  <<uploadQueue, activeUploads, status, progress, error, transfer,
    currentProgress, progressTimer, backfillTimers, completeCalls,
    completedCount, nextUpload, batches, admitted, upFile, outcomes,
    savedFiles, selection, invalidFiles, accepted, validation, selections,
    storedBefore, quotaCheck, activityLog, user, document, cancels>>

\* loadFiles() up to its await: without a user both arrays are emptied;
\* otherwise the switch reads currentView and the listing is requested
LoadFilesFor(view) ==
  /\ loadCalls < MaxLoads
  /\ loadCalls' = loadCalls + 1
  /\ currentView' = view
  /\ IF ~user
     THEN /\ appFiles' = NoListing
          /\ filteredFiles' = NoListing
          /\ UNCHANGED loads
     ELSE /\ loads' = Append(loads, view)
          /\ UNCHANGED <<appFiles, filteredFiles>>
  /\ UNCHANGED <<handlerVars, toastVars>>

\* switchView(view): returns at once for the current view
SwitchView(view) ==
  /\ view # currentView
  /\ LoadFilesFor(view)

\* loadFiles() called after a sign-in, an upload or a new folder
LoadFiles == LoadFilesFor(currentView)

RemoveAt(q, i) == SubSeq(q, 1, i - 1) \o SubSeq(q, i + 1, Len(q))

\* the listing a loadFiles call awaits arrives: `this.files = await ...`,
\* then filteredFiles = [...this.files]
ListingArrives(i) ==
  /\ i \in 1..Len(loads)
  /\ appFiles' = Listing(loads[i])
  /\ filteredFiles' = Listing(loads[i])
  /\ loads' = RemoveAt(loads, i)
  /\ UNCHANGED <<currentView, loadCalls, handlerVars, toastVars>>

\* the request of a loadFiles call rejects: its catch empties both arrays
ListingFails(i) ==
  /\ i \in 1..Len(loads)
  /\ appFiles' = NoListing
  /\ filteredFiles' = NoListing
  /\ loads' = RemoveAt(loads, i)
  /\ UNCHANGED <<currentView, loadCalls, handlerVars, toastVars>>

NextViews ==
  \/ \E view \in Views : SwitchView(view)
  \/ LoadFiles
  \/ \E i \in 1..MaxLoads : ListingArrives(i)
  \/ \E i \in 1..MaxLoads : ListingFails(i)

SpecViews == Init /\ [][NextViews]_vars

\* ---- ModalManager: the toasts ----
\* the toasts as one record, threaded through showToast and removeToast
T == [toastContainer |-> toastContainer, toastQueue |-> toastQueue,
      fadeTimers |-> fadeTimers]

ApplyToasts(t) ==
  /\ toastContainer' = t.toastContainer
  /\ toastQueue' = t.toastQueue
  /\ fadeTimers' = t.fadeTimers

\* a toast element: the toast it shows and whether its setTimeout of
\* `duration` is pending
Toast(id, pending) == [id |-> id, timeout |-> pending]

InContainer(t, id) ==
  \E i \in 1..Len(t.toastContainer) : t.toastContainer[i].id = id

\* variant: the capacity test is > instead of >=
showToast_OffByOne(t, id) ==
  IF Len(t.toastContainer) > maxToasts
  THEN [t EXCEPT !.toastQueue = Append(@, id)]
  ELSE [t EXCEPT !.toastContainer = Append(@, Toast(id, TRUE))]

\* showToast(message, type, duration); id stands for the three arguments
showToast(t, id) ==
  IF Len(t.toastContainer) >= maxToasts
  THEN [t EXCEPT !.toastQueue = Append(@, id)]
  ELSE [t EXCEPT !.toastContainer = Append(@, Toast(id, TRUE))]

\* removeToast(toast) up to its setTimeout; a toast stays a child of the
\* container while it fades out
removeToast(t, id) ==
  IF ~InContainer(t, id) THEN t
  ELSE [t EXCEPT !.fadeTimers = Append(@, id)]

\* clearTimeout(timeout) of the click handlers
clearTimeout(t, id) ==
  [t EXCEPT !.toastContainer =
     [i \in 1..Len(@) |-> IF @[i].id = id THEN Toast(id, FALSE) ELSE @[i]]]

\* the 300 ms callback of removeToast
fadeOut(t, id) ==
  LET t1 == [t EXCEPT !.toastContainer =
               SelectSeq(@, LAMBDA e : e.id # id)]
  IN IF Len(t1.toastQueue) > 0
     THEN showToast([t1 EXCEPT !.toastQueue = Tail(@)], Head(t1.toastQueue))
     ELSE t1

\* clearAllToasts()
RECURSIVE removeToasts(_, _)
removeToasts(t, children) ==
  IF children = <<>> THEN t
  ELSE removeToasts(removeToast(t, Head(children).id), Tail(children))
clearAllToasts(t) ==
  [removeToasts(t, t.toastContainer) EXCEPT !.toastQueue = <<>>]

\* showToast called by the page
ShowToast ==
  /\ toastCalls < MaxToasts
  /\ toastCalls' = toastCalls + 1
  /\ ApplyToasts(showToast(T, toastCalls + 1))
  /\ UNCHANGED <<clicks, handlerVars, appVars>>

\* the setTimeout of showToast fires after `duration`, which is 5000 ms in
\* every call of the program: these timers fire in the order they were
\* set, the order of the container
ToastTimeout(i) ==
  /\ i \in 1..Len(toastContainer)
  /\ toastContainer[i].timeout
  /\ \A j \in 1..(i - 1) : ~toastContainer[j].timeout
  /\ ApplyToasts(removeToast(clearTimeout(T, toastContainer[i].id),
                             toastContainer[i].id))
  /\ UNCHANGED <<toastCalls, clicks, handlerVars, appVars>>

\* a click on a toast or on its remove button
ClickToast(i) ==
  /\ i \in 1..Len(toastContainer)
  /\ clicks < MaxClicks
  /\ clicks' = clicks + 1
  /\ ApplyToasts(removeToast(clearTimeout(T, toastContainer[i].id),
                             toastContainer[i].id))
  /\ UNCHANGED <<toastCalls, handlerVars, appVars>>

\* the oldest pending 300 ms timer fires (equal delays fire in the order
\* they were set)
FadeOut ==
  /\ fadeTimers # <<>>
  /\ ApplyToasts(fadeOut([T EXCEPT !.fadeTimers = Tail(@)],
                         Head(fadeTimers)))
  /\ UNCHANGED <<toastCalls, clicks, handlerVars, appVars>>

\* the page shows and dismisses toasts and does not call clearAllToasts
NextToasts ==
  \/ ShowToast
  \/ \E i \in 1..maxToasts : ToastTimeout(i)
  \/ \E i \in 1..maxToasts : ClickToast(i)
  \/ FadeOut

SpecToasts == Init /\ [][NextToasts]_vars

\* clearAllToasts() called by the page
ClearAllToasts ==
  /\ clicks < MaxClicks
  /\ clicks' = clicks + 1
  /\ ApplyToasts(clearAllToasts(T))
  /\ UNCHANGED <<toastCalls, handlerVars, appVars>>

\* the toasts with clearAllToasts among the calls of the page
NextClear ==
  \/ ShowToast
  \/ \E i \in 1..maxToasts : ToastTimeout(i)
  \/ \E i \in 1..maxToasts : ClickToast(i)
  \/ FadeOut
  \/ ClearAllToasts

SpecClear == Init /\ [][NextClear]_vars

\* ---- the queue with cancelAllUploads and clearUploadHistory ----
NextCancel ==
  \/ \E n \in 1..MaxUploads : UploadFiles(n)
  \/ BackfillTimer
  \/ \E u \in Uploads : StartProgressTimer(u)
  \/ \E u \in Uploads : TransferSucceeds(u)
  \/ \E u \in Uploads : TransferFails(u)
  \/ CancelAllUploads
  \/ ClearUploadHistory

SpecCancel == Init /\ [][NextCancel]_vars

\* ---- the queue and the progress dialogs it opens and closes ----
InitDialogs ==
  /\ InitHandler /\ InitPage
  /\ storedBefore = 0
  /\ user = TRUE
  /\ document = Document(TRUE, 0)

SpecDialogs == InitDialogs /\ [][NextLive]_vars

\* ---- properties ----
Created == {u \in Uploads : status[u] # "none"}
Terminal == {u \in Uploads : status[u] \in {"completed", "failed"}}
Busy == \E u \in Uploads : status[u] \in {"queued", "uploading"}
Pct(v) == v.pct

\* C1: the active set, and the set of uploads whose status is 'uploading',
\* never hold more than maxConcurrentUploads uploads.
C1_ActiveAtMostLimit ==
  /\ Cardinality(activeUploads) <= maxConcurrentUploads
  /\ Cardinality({u \in Uploads : status[u] = "uploading"})
       <= maxConcurrentUploads

\* a fourth upload was admitted by a backfill while the limit is reached
C1_Witness ==
  /\ Cardinality(activeUploads) = maxConcurrentUploads
  /\ Len(admitted) > maxConcurrentUploads
  /\ Terminal # {}

\* C2 as stated: whenever an upload waits in the queue, exactly
\* maxConcurrentUploads uploads are active.
C2_NoIdleSlotWhileQueued ==
  Len(uploadQueue) > 0 =>
    Cardinality(activeUploads) = maxConcurrentUploads

\* C2 amended: whenever an upload waits in the queue, either exactly
\* maxConcurrentUploads uploads are active or a backfill timer is pending.
C2_IdleSlotHasBackfillPending ==
  Len(uploadQueue) > 0 =>
    \/ Cardinality(activeUploads) = maxConcurrentUploads
    \/ /\ Cardinality(activeUploads) < maxConcurrentUploads
       /\ backfillTimers > 0

\* a slot is idle, an upload is queued and the backfill timer is pending
C2_Witness ==
  /\ Len(uploadQueue) > 0
  /\ Cardinality(activeUploads) = maxConcurrentUploads - 1
  /\ backfillTimers = 1

C4_OncePerBatch ==
  (Created # {} /\ ~Busy) => completeCalls = batches

\* C4 amended: onAllUploadsComplete fires exactly in the steps in which
\* the last upload that was queued or uploading becomes terminal, once.
C4_OncePerDrain ==
  [][IF Busy /\ ~Busy'
     THEN completeCalls' = completeCalls + 1
     ELSE completeCalls' = completeCalls]_vars

\* two overlapping uploadFiles calls, one success and one failure, drained
C4_Witness ==
  /\ ~Busy
  /\ batches = 2
  /\ completeCalls = 1
  /\ \E u, v \in Uploads : status[u] = "completed" /\ status[v] = "failed"

\* C5 as stated: after the only batch has drained, the count computed by
\* onAllUploadsComplete is the number of uploads that ended 'completed'.
C5_ReportsSucceededCount ==
  (batches = 1 /\ completeCalls = 1 /\ ~Busy) =>
    completedCount = Cardinality({u \in Uploads : status[u] = "completed"})

\* C6: a status changes only along queued -> uploading -> completed or
\* failed (an upload created and admitted in one uploadFiles call is seen
\* going from not existing to uploading); terminal statuses never change.
C6_StatusMonotonic ==
  [][\A u \in Uploads :
       status'[u] # status[u] =>
         <<status[u], status'[u]>> \in
           {<<"none", "queued">>, <<"none", "uploading">>,
            <<"queued", "uploading">>,
            <<"uploading", "completed">>, <<"uploading", "failed">>}]_vars

\* one upload completed and another failed, and a progress timer of a
\* terminal upload has ticked since
C6_Witness ==
  /\ \E u, v \in Uploads : status[u] = "completed" /\ status[v] = "failed"
  /\ \E u \in Terminal : progress[u].state = "running"

\* C7 as stated: the progress values of an upload never decrease.
C7_ProgressNonDecreasing ==
  [][\A u \in Uploads : Pct(progress[u]) <= Pct(progress'[u])]_vars

\* C8 as stated: upload.progress is written only while the upload's
\* status is 'uploading'.
C8_ProgressOnlyWhileActive ==
  [][\A u \in Uploads :
       progress'[u] # progress[u] => status[u] = "uploading"]_vars

\* The aggregate of section 4.5 for the uploads created so far: the sum
\* of their progress (100 for a completed upload) over their number.
BatchSum ==
  LET contribution ==
        [u \in Uploads |->
           IF status[u] = "completed" THEN Num(100) ELSE progress[u]]
  IN SumProgress(Created, contribution)

OverallProgress == calculateOverallProgress(H)

\* C9 as stated: for a single batch, calculateOverallProgress is the sum
\* of the progress of all its uploads divided by their number.
C9_OverallIsBatchAverage ==
  (batches = 1) =>
    /\ OverallProgress.tag = "num"
    /\ OverallProgress.sum * Cardinality(Created)
         = BatchSum * OverallProgress.den

Decreases(a, b) ==
  a.tag = "num" /\ b.tag = "num" /\ b.sum * a.den < a.sum * b.den

\* C10 as stated: for a fixed batch, the value of calculateOverallProgress
\* never decreases from one turn of the event loop to the next.
C10_OverallNonDecreasing ==
  [][(batches = 1 /\ batches' = 1) =>
       ~Decreases(OverallProgress, OverallProgress')]_vars

InQueue(u) == \E i \in 1..Len(uploadQueue) : uploadQueue[i] = u
InActiveSet(u) == u \in activeUploads /\ status[u] = "uploading"
\* the completed set: the terminal uploads the handler still holds, which
\* are the ones getUploadStats can count
InCompletedSet(u) == u \in activeUploads /\ u \in Terminal

\* C11 as stated: before anything has cleared the upload history, every
\* upload created is in exactly one of the queue, the active set and the
\* completed set, and getUploadStats counts every terminal upload.
C11_ExactlyOneCollection ==
  completeCalls = 0 =>
    /\ \A u \in Created :
         Cardinality({c \in {"queue", "active", "completed"} :
            \/ c = "queue" /\ InQueue(u)
            \/ c = "active" /\ InActiveSet(u)
            \/ c = "completed" /\ InCompletedSet(u)}) = 1
    /\ getUploadStats(H).completed =
         Cardinality({u \in Uploads : status[u] = "completed"})
    /\ getUploadStats(H).failed =
         Cardinality({u \in Uploads : status[u] = "failed"})

\* C12: if every transfer settles and every backfill timer fires, then
\* whenever an upload is queued or uploading, a state follows in which
\* every upload accepted so far is completed or failed and the queue and
\* the active set are empty.
C12_EveryUploadSettles ==
  Busy ~> (Terminal = Created /\ uploadQueue = <<>> /\ activeUploads = {})

\* a batch larger than the limit has drained through the queue
C12_Witness ==
  /\ batches = 1
  /\ Len(admitted) > maxConcurrentUploads
  /\ Terminal = Created
  /\ uploadQueue = <<>> /\ activeUploads = {}

\* C13: a submission of N <= maxConcurrentUploads files to an idle
\* handler leaves all N uploads active with status 'uploading' and the
\* queue empty at the end of the submission step.
C13_SmallBatchAllActive ==
  [][(/\ uploadQueue = <<>> /\ activeUploads = {}
      /\ nextUpload' > nextUpload
      /\ nextUpload' - nextUpload <= maxConcurrentUploads)
     => /\ uploadQueue' = <<>>
        /\ activeUploads' = nextUpload..(nextUpload' - 1)
        /\ \A u \in nextUpload..(nextUpload' - 1) :
             status'[u] = "uploading"]_vars

\* exactly maxConcurrentUploads files were submitted to the idle handler
\* and the submission step has just run
C13_Witness ==
  /\ batches = 1
  /\ nextUpload = maxConcurrentUploads + 1
  /\ uploadQueue = <<>>
  /\ Cardinality(activeUploads) = maxConcurrentUploads
  /\ \A u \in activeUploads : transfer[u] = "preparing"

\* C14: startUpload (and with it storageManager.uploadFile) is called at
\* most once for an upload, and an upload that was admitted is not in the
\* queue any more.
C14_AdmittedAtMostOnce ==
  /\ \A i, j \in 1..Len(admitted) : admitted[i] = admitted[j] => i = j
  /\ \A i \in 1..Len(uploadQueue) :
       /\ uploadQueue[i] \notin activeUploads
       /\ \A j \in 1..Len(admitted) : admitted[j] # uploadQueue[i]
  /\ \A i, j \in 1..Len(uploadQueue) :
       uploadQueue[i] = uploadQueue[j] => i = j

\* two backfill timers were pending at once; the first one drained the
\* queue and the second one is still to fire
C14_Witness ==
  /\ backfillTimers >= 1
  /\ uploadQueue = <<>>
  /\ Len(admitted) > maxConcurrentUploads
  /\ Cardinality(Terminal) = 2

C18_FailureIsLocal ==
  [][\A u \in Uploads :
       (status[u] # "failed" /\ status'[u] = "failed") =>
         /\ \A v \in Uploads \ {u} :
              /\ status'[v] = status[v]
              /\ progress'[v] = progress[v]
              /\ error'[v] = error[v]
         /\ uploadQueue' = uploadQueue
         /\ Len(uploadQueue) > 0 => backfillTimers' = backfillTimers + 1]_vars

\* an upload failed while a sibling with reported progress is uploading
\* and another upload waits in the queue
C18_Witness ==
  /\ \E u \in Uploads : status[u] = "failed"
  /\ Len(uploadQueue) > 0
  /\ \E v \in activeUploads : progress[v].state = "running"

\* ---- validation ----
Blank(name) ==
  ~name.defined \/ \A i \in 1..Len(name.chars) : name.chars[i] \in Whitespace
Acceptable(file) == ~(file.size > maxFileSize \/ Blank(file.name))
Oversize(file) == file.size > maxFileSize
SizeRejections ==
  {j \in 1..Len(invalidFiles) : invalidFiles[j].reason = SizeReason}
HandlerUntouched ==
  UNCHANGED <<uploadQueue, activeUploads, status, progress, error,
              transfer, upFile, nextUpload, batches, admitted, outcomes,
              backfillTimers>>

\* C15: no upload object ever holds a file larger than maxFileSize, so no
\* such file is queued, active, terminal or transferred; a
\* handleFileSelection call lists each oversize file of its selection in
\* invalidFiles with the size reason, and a call whose files are all
\* oversize creates no upload and leaves the handler as it was.
C15_OversizeNeverATask ==
  /\ [](/\ \A u \in Uploads : ~Oversize(upFile[u])
        /\ Cardinality(SizeRejections) =
             Cardinality({i \in 1..Len(selection) : Oversize(selection[i])})
        /\ \A j \in SizeRejections : Oversize(invalidFiles[j].file))
  /\ [][(selections' # selections
         /\ \A i \in 1..Len(selection') : Oversize(selection'[i]))
        => (HandlerUntouched /\ accepted' = <<>>
            /\ Len(invalidFiles') = Len(selection'))]_vars

\* the call handleFileSelection([f]) with f.size = maxFileSize + 1 has
\* just run on a handler that is uploading
C15_Witness ==
  /\ selection = <<OversizeFile>>
  /\ invalidFiles = <<[file |-> OversizeFile, reason |-> SizeReason]>>
  /\ activeUploads # {}

\* C16: validateFile(file) answers valid exactly when the size is at most
\* maxFileSize and the name is defined and has a character that is not
\* whitespace, whatever the type; the call leaves the handler as it was.
C16_ValidateFileIff ==
  [][validation'.called =>
       /\ validation'.result.valid <=> Acceptable(validation'.file)
       /\ HandlerUntouched]_vars

\* a file of exactly maxFileSize bytes and an executable type was accepted
C16_Witness ==
  /\ validation.called
  /\ validation.file.size = maxFileSize
  /\ validation.file.type = "application/x-msdownload"
  /\ validation.result.valid

\* C17: after a handleFileSelection call the uploads created are the
\* acceptable files of the selection, in order, each queued or uploading;
\* invalidFiles holds the other files, in order, each with its reason;
\* a call with acceptable files fills the free slots exactly as those
\* files alone would, and a call without any leaves the handler as it was.
C17_MixedSelection ==
  /\ [](LET good == SelectSeq(selection, LAMBDA f : Acceptable(f))
            bad == SelectSeq(selection, LAMBDA f : ~Acceptable(f))
        IN /\ Len(accepted) = Len(good)
           /\ \A i \in 1..Len(accepted) :
                /\ upFile[accepted[i]] = good[i]
                /\ \/ InQueue(accepted[i]) /\ status[accepted[i]] = "queued"
                   \/ InActiveSet(accepted[i])
           /\ Len(invalidFiles) = Len(bad)
           /\ \A j \in 1..Len(invalidFiles) :
                /\ invalidFiles[j].file = bad[j]
                /\ invalidFiles[j].reason =
                     IF Oversize(bad[j]) THEN SizeReason ELSE NameReason
           /\ \A u \in Created : Acceptable(upFile[u]))
  /\ [][selections' # selections =>
         LET waiting == Len(uploadQueue) + Len(accepted')
             free == maxConcurrentUploads - Cardinality(activeUploads)
             admit == IF waiting < free THEN waiting ELSE free
         IN /\ nextUpload' - nextUpload = Len(accepted')
            /\ IF Len(accepted') = 0
               THEN HandlerUntouched
               ELSE /\ Cardinality(activeUploads') =
                         Cardinality(activeUploads) + admit
                    /\ Len(uploadQueue') = waiting - admit]_vars

\* a selection of one acceptable and one invalid file was handled while
\* two uploads were active: the acceptable file took the last free slot
C17_Witness ==
  /\ Len(selection) = 2
  /\ Len(accepted) = 1
  /\ Len(invalidFiles) = 1
  /\ selections = 2
  /\ Cardinality(activeUploads) = maxConcurrentUploads
  /\ accepted[1] \in activeUploads

\* C20 as stated: an upload for which canUploadFile found the usage plus
\* the file size above maxTotalSize is failed with the quota reason and
\* its file document is not saved.
C20_QuotaExceededIsRejected ==
  \A u \in Uploads :
    quotaCheck[u] = "exceeded" =>
      /\ status[u] = "failed"
      /\ error[u] = QuotaExceeded
      /\ u \notin savedFiles

\* ---- cancelling, retrying, dialogs ----
InFlight == {u \in Uploads : transfer[u] \in {"preparing", "saving"}}
Occurrences(q, u) == Cardinality({i \in 1..Len(q) : q[i] = u})
\* the handler is idle after some uploads
IdleAfterUploads ==
  /\ Created # {}
  /\ uploadQueue = <<>>
  /\ activeUploads = {}
  /\ InFlight = {}
  /\ backfillTimers = 0
\* upload.error holds a value: it is neither null nor undefined
ErrorSet(u) == error[u] \notin {"null", UndefinedMessage}

\* C21 as stated: an active upload whose status is 'uploading' stays in the
\* active set with that status in every step but the one in which its own
\* transfer settles.
C21_ActiveUntilSettled ==
  [][\A u \in Uploads :
       (InActiveSet(u) /\ transfer'[u] # "settled") =>
         (u \in activeUploads' /\ status'[u] = "uploading")]_vars

C23_ErrorIffFailed ==
  \A u \in Uploads : ErrorSet(u) <=> status[u] = "failed"

\* C24 as stated: at most maxConcurrentUploads calls of
\* storageManager.uploadFile are unsettled at any time, cancelAllUploads and
\* clearUploadHistory calls included.
C24_InFlightAtMostLimit ==
  Cardinality(InFlight) <= maxConcurrentUploads

\* C25 as stated: when the handler is idle after some uploads, no progress
\* dialog it opened is still open.
C25_IdleHasNoDialog ==
  IdleAfterUploads => document.progressDialogs = 0

\* C26 as stated: a cancelAllUploads (or clearUploadHistory) call leaves the
\* queue and the active set empty and hasActiveUploads() false; an upload
\* that was dropped from the queue is never started; and where one
\* uploadFiles call was made, onAllUploadsComplete is called at most once
\* although uploads were cancelled.
C26_CancelLeavesHandlerQuiet ==
  /\ [][cancels' # cancels =>
          /\ uploadQueue' = <<>>
          /\ activeUploads' = {}
          /\ ~hasActiveUploads(H)']_vars
  /\ [][\A u \in Uploads :
          (status[u] = "queued" /\ ~InQueue(u)) =>
            (status'[u] = "queued" /\ transfer'[u] = "none")]_vars
  /\ []((cancels > 0 /\ batches <= 1) => completeCalls <= 1)

\* C27 as stated: when no loadFiles call is waiting for its listing, files
\* and filteredFiles hold the listing of currentView (or are empty, after a
\* request that failed), never the listing of another view.
C27_FilesOfCurrentView ==
  (loads = <<>> /\ loadCalls > 0) =>
    /\ appFiles \in {Listing(currentView), NoListing}
    /\ filteredFiles \in {Listing(currentView), NoListing}

\* C28: without a user, no upload gets past the check at the start of
\* uploadFile: no file document is saved, no activity is logged, no
\* progress timer is started, and an upload whose uploadFile call has
\* settled is 'failed' with the message 'User not authenticated'.
C28_NoUserNothingWritten ==
  ~user =>
    \A u \in Uploads :
      /\ u \notin savedFiles
      /\ u \notin activityLog
      /\ transfer[u] # "saving"
      /\ ~progressTimer[u]
      /\ transfer[u] = "settled" =>
            (status[u] = "failed" /\ error[u] = NotAuthenticated)

\* an upload was submitted without a user and has failed for that reason
C28_Witness ==
  /\ ~user
  /\ \E u \in Uploads :
       /\ transfer[u] = "settled"
       /\ status[u] = "failed"
       /\ error[u] = NotAuthenticated

\* C29: the container never holds more than maxToasts toasts, and a
\* showToast call made while it holds maxToasts leaves the container as it
\* is and appends the toast to toastQueue.
C29_AtMostMaxToasts ==
  /\ [](Len(toastContainer) <= maxToasts)
  /\ [][(toastCalls' # toastCalls /\ Len(toastContainer) = maxToasts) =>
          /\ toastContainer' = toastContainer
          /\ toastQueue' = Append(toastQueue, toastCalls')]_vars

\* the container is full, toasts wait in the queue and one toast of the
\* container is fading out after a click or a clearAllToasts call
C29_Witness ==
  /\ Len(toastContainer) = maxToasts
  /\ Len(toastQueue) >= 2
  /\ clicks > 0
  /\ fadeTimers # <<>>

QueuePos(q, id) == CHOOSE i \in 1..Len(q) : q[i] = id
Waiting(q) == {q[i] : i \in 1..Len(q)}
Displayed(container) == {container[i].id : i \in 1..Len(container)}

\* C30 as stated: a toast leaves toastQueue only by being displayed, the
\* toasts that stay in the queue keep their order, and a toast is displayed
\* only when every toast queued before it has left the queue; no toast is
\* both queued and displayed.
C30_QueuedShownFifo ==
  /\ [](Waiting(toastQueue) \cap Displayed(toastContainer) = {})
  /\ [][\A i \in 1..Len(toastQueue) :
          LET a == toastQueue[i]
          IN /\ a \in Waiting(toastQueue') \cup Displayed(toastContainer')
             /\ \A j \in (i + 1)..Len(toastQueue) :
                  LET b == toastQueue[j]
                  IN /\ b \notin Waiting(toastQueue') =>
                          a \notin Waiting(toastQueue')
                     /\ ({a, b} \subseteq Waiting(toastQueue')) =>
                          QueuePos(toastQueue', a) < QueuePos(toastQueue', b)
       ]_vars
====
